---- MODULE Spec2Model ----
(***************************************************************************)
(* Model of src/src/WorkflowDoctor.tsx: the WorkflowDoctor component's     *)
(* React state, its two event handlers (handleAnalyze, loadDemo), the      *)
(* workflow fetches and the deterministic health score handleAnalyze       *)
(* computes once the AI response has arrived.                              *)
(*                                                                         *)
(* Spec is the component under every interleaving of its handlers, its     *)
(* fetches and its suspended handleAnalyze calls; SpecScore runs           *)
(* handleAnalyze alone on each workflow of a bounded set of inputs.        *)
(*                                                                         *)
(* A JavaScript string is a sequence of one-character strings, so that     *)
(* String.prototype.includes, toLowerCase and the regular expression       *)
(* /Node \d+/ are computed, not assumed.  A JSON object is a record; a     *)
(* field the JSON document omits is a field the record does not have.      *)
(***************************************************************************)
EXTENDS Integers, Sequences, FiniteSets, Bags, TLC

VARIABLES
    workflow,     \* useState<Workflow | null>(null)            (line 35)
    loading,      \* useState(false)                            (line 36)
    analysis,     \* useState<{text, model} | null>(null)       (line 37)
    healthScore,  \* useState(0)                                (line 38)
    served,       \* the document the server holds for each demo type
    fetching,     \* fetches in flight, per demo type     (lines 43, 106)
    pending,      \* handleAnalyze calls suspended at the await (line 64),
                  \* each with the workflow its closure captured
    analysisOf,   \* history: the workflow captured by the call that wrote analysis
    scoreOf       \* history: the workflow captured by the call that wrote healthScore

vars == <<workflow, loading, analysis, healthScore, served, fetching, pending,
          analysisOf, scoreOf>>

\* JavaScript null, as a record no workflow or analysis equals.
NULL == [null |-> TRUE]

-----------------------------------------------------------------------------
(* Strings *)

UpperCase == <<"A","B","C","D","E","F","G","H","I","J","K","L","M",
               "N","O","P","Q","R","S","T","U","V","W","X","Y","Z">>
LowerCase == <<"a","b","c","d","e","f","g","h","i","j","k","l","m",
               "n","o","p","q","r","s","t","u","v","w","x","y","z">>
Digits == {"0","1","2","3","4","5","6","7","8","9"}

\* the letters toLowerCase changes, each with its lower-case form
LowerMap ==
    [c \in {UpperCase[i] : i \in 1..26} |->
        LowerCase[CHOOSE i \in 1..26 : UpperCase[i] = c]]

\* String.prototype.toLowerCase, one character
LowerChar(c) == IF c \in DOMAIN LowerMap THEN LowerMap[c] ELSE c

\* String.prototype.toLowerCase
ToLowerCase(s) == [i \in 1..Len(s) |-> LowerChar(s[i])]

\* String.prototype.includes: sub occurs in s as a contiguous substring
Includes(s, sub) ==
    \E i \in 1..(Len(s) - Len(sub) + 1) : SubSeq(s, i, i + Len(sub) - 1) = sub

\* the regular expression /Node \d+/ of line 93, matched at position i with
\* k digits: the five characters "Node " and then k >= 1 digits
NodePrefix == <<"N","o","d","e"," ">>

MatchesAt(s, i, k) ==
    /\ i + 4 + k <= Len(s)
    /\ SubSeq(s, i, i + 4) = NodePrefix
    /\ \A j \in (i + 5)..(i + 4 + k) : s[j] \in Digits

\* s.match(/Node \d+/) is truthy: the pattern is found somewhere in s
MatchDefaultName(s) ==
    \E i \in 1..(Len(s) - 5) : \E k \in 1..(Len(s) - i - 4) : MatchesAt(s, i, k)

sError    == <<"e","r","r","o","r">>
sCatch    == <<"c","a","t","c","h">>
sTrigger  == <<"t","r","i","g","g","e","r">>
sWebhook  == <<"w","e","b","h","o","o","k">>
sCode     == <<"C","o","d","e">>
sFunction == <<"F","u","n","c","t","i","o","n">>

-----------------------------------------------------------------------------
(* The health score, lines 68-97 of handleAnalyze *)

Max(a, b) == IF a >= b THEN a ELSE b
Min(a, b) == IF a <= b THEN a ELSE b

\* the JSON document gave node n a type / a name
HasType(n) == "type" \in DOMAIN n
HasName(n) == "name" \in DOMAIN n

\* line 74, the callback of nodes.some
IsErrorNode(n) ==
    Includes(ToLowerCase(n.type), sError) \/ Includes(n.type, sCatch)

\* line 83, the callback of nodes.filter
IsTrigger(n) ==
    \/ Includes(ToLowerCase(n.type), sTrigger)
    \/ Includes(ToLowerCase(n.type), sWebhook)

\* line 88, the callback of nodes.filter
IsHeavy(n) == Includes(n.type, sCode) \/ Includes(n.type, sFunction)

\* line 93, the callback of nodes.filter
IsDefaultNamed(n) == MatchDefaultName(n.name)

\* Array.prototype.filter(...).length: the number of positions P holds at
Count(P) == Cardinality(P)

\* line 74: Array.prototype.some visits the nodes in order and stops at the
\* first one the callback accepts; n.type.toLowerCase() throws a TypeError on
\* a node without type that is reached before that
ErrorCheckThrows(nodes) ==
    \E i \in 1..Len(nodes) :
        /\ ~HasType(nodes[i])
        /\ \A j \in 1..(i - 1) : HasType(nodes[j]) /\ ~IsErrorNode(nodes[j])

\* line 74: the value of hasErrorNodes when nodes.some did not throw
HasErrorNodes(nodes) ==
    \E i \in 1..Len(nodes) :
        /\ \A j \in 1..i : HasType(nodes[j])
        /\ IsErrorNode(nodes[i])

\* lines 74-93: the computation throws a TypeError before setHealthScore:
\* some (74) on a node without type it reaches, filter (83, 88) on any node
\* without type, filter (93) on any node without name
ScoreThrows(nodes) ==
    \/ ErrorCheckThrows(nodes)
    \/ \E i \in 1..Len(nodes) : ~HasType(nodes[i])
    \/ \E i \in 1..Len(nodes) : ~HasName(nodes[i])

\* the missing-error-handling rule firing from 5 nodes on, not from 6
ErrorDeltaAtFive(nodes) ==
    IF ~HasErrorNodes(nodes) /\ Len(nodes) >= 5 THEN -20 ELSE 0

\* line 75
ErrorDelta(nodes) ==
    IF ~HasErrorNodes(nodes) /\ Len(nodes) > 5 THEN -20 ELSE 0

\* the two size rules as one if / else if chain
SizeDeltaElseIf(nodes) ==
    IF Len(nodes) > 20 THEN -10 ELSE IF Len(nodes) > 10 THEN -5 ELSE 0

\* lines 79-80
SizeDelta(nodes) ==
    (IF Len(nodes) > 10 THEN -5 ELSE 0) + (IF Len(nodes) > 20 THEN -10 ELSE 0)

\* the trigger rules looking at the first node only
TriggerDeltaFirstOnly(nodes) ==
    LET triggers == IF Len(nodes) > 0 /\ IsTrigger(nodes[1]) THEN 1 ELSE 0
    IN  (IF triggers = 0 THEN -10 ELSE 0) + (IF triggers > 2 THEN -5 ELSE 0)

\* lines 83-85
TriggerDelta(nodes) ==
    LET triggers == Count({i \in 1..Len(nodes) : IsTrigger(nodes[i])})
    IN  (IF triggers = 0 THEN -10 ELSE 0) + (IF triggers > 2 THEN -5 ELSE 0)

\* lines 88-89
HeavyDelta(nodes) ==
    LET heavyNodes == Count({i \in 1..Len(nodes) : IsHeavy(nodes[i])})
    IN  IF heavyNodes > 3 THEN -5 ELSE 0

\* the naming rule adding its points instead of deducting them
NamingDeltaAdds(nodes) ==
    LET defaultNamed == Count({i \in 1..Len(nodes) : IsDefaultNamed(nodes[i])})
    IN  IF defaultNamed > 0 THEN defaultNamed * 2 ELSE 0

\* the naming rule deducting 2 once, however many names match
NamingDeltaFlat(nodes) ==
    LET defaultNamed == Count({i \in 1..Len(nodes) : IsDefaultNamed(nodes[i])})
    IN  IF defaultNamed > 0 THEN -2 ELSE 0

\* lines 93-94
NamingDelta(nodes) ==
    LET defaultNamed == Count({i \in 1..Len(nodes) : IsDefaultNamed(nodes[i])})
    IN  IF defaultNamed > 0 THEN -(defaultNamed * 2) ELSE 0

\* lines 70-94: the local variable score when line 97 reads it
RawScore(nodes) ==
    100 + ErrorDelta(nodes) + SizeDelta(nodes) + TriggerDelta(nodes)
        + HeavyDelta(nodes) + NamingDelta(nodes)

\* Clamp with the lower bound forgotten
ClampNoFloor(score) == Min(100, score)

\* line 97: Math.max(0, Math.min(100, score))
Clamp(score) == Max(0, Min(100, score))

\* lines 70-97: the value handed to setHealthScore for workflow w
Score(w) == Clamp(RawScore(w.nodes))

-----------------------------------------------------------------------------
(* Workflow documents: what a fetch of /demo-workflows/*.json can deliver *)

nFetch   == <<"F","e","t","c","h">>
nNode1   == <<"N","o","d","e"," ","1">>
nNode12  == <<"N","o","d","e"," ","1","2">>
nNode7   == <<"N","o","d","e","7">>
nMyNode  == <<"m","y"," ","N","o","d","e"," ","3","b">>

tSet            == <<"s","e","t">>
tWebhookTrigger == <<"w","e","b","h","o","o","k","T","r","i","g","g","e","r">>
tTrigger        == <<"T","r","i","g","g","e","r">>
tErrorHandler   == <<"e","r","r","o","r","H","a","n","d","l","e","r">>
tERROR          == <<"E","R","R","O","R">>
tCatchUpper     == <<"C","a","t","c","h">>
tCode           == <<"C","o","d","e">>
tCodeLower      == <<"c","o","d","e">>

\* interface Node (lines 21-25)
MkNode(name, type) == [name |-> name, type |-> type, position |-> <<0, 0>>]

Plain        == MkNode(nFetch, tSet)
Default1     == MkNode(nNode1, tSet)
Default12    == MkNode(nNode12, tSet)
NoSpace      == MkNode(nNode7, tSet)
Hook         == MkNode(nFetch, tWebhookTrigger)
TriggerUpper == MkNode(nFetch, tTrigger)
ErrHandler   == MkNode(nFetch, tErrorHandler)
ErrUpper     == MkNode(nFetch, tERROR)
CatchUpper   == MkNode(nFetch, tCatchUpper)
CodeNode     == MkNode(nFetch, tCode)
\* nodes of a document that omits a field
NoName       == [type |-> tSet, position |-> <<0, 0>>]
NoType       == [name |-> nFetch, position |-> <<0, 0>>]

NodeKinds ==
    {Plain, Default1, NoSpace, Hook, TriggerUpper, ErrUpper, CatchUpper,
     CodeNode, NoName, NoType}

\* interface Workflow (lines 27-31)
MkWorkflow(nodes) ==
    [name |-> "demo", nodes |-> nodes, connections |-> <<>>]

Rep(n, k) == [i \in 1..k |-> n]

\* a node list of the inputs: up to MaxHead nodes of any kind, then up to
\* MaxPad plain nodes
MaxHead == 2
MaxPad  == 21
\* handleAnalyze calls / fetches in flight at once
MaxCalls   == 2
MaxFetches == 2

RECURSIVE SeqsUpTo(_, _)
SeqsUpTo(S, k) ==
    IF k = 0 THEN {<<>>}
    ELSE LET shorter == SeqsUpTo(S, k - 1)
         IN  shorter \cup {Append(q, x) : q \in shorter, x \in S}

\* the spec's two concrete scenarios and the clamp scenario
Scenario6  == Rep(Plain, 5) \o <<CodeNode>>
Scenario25 == Rep(Plain, 21) \o <<ErrHandler, Hook, Default1, Default12>>
Scenario51 == Rep(Default1, 51)

\* the node lists the scoring is examined on
NodeLists ==
    {h \o Rep(Plain, k) : h \in SeqsUpTo(NodeKinds, MaxHead), k \in 0..MaxPad}
    \cup {Scenario6, Scenario25, Scenario51, Rep(CodeNode, 4), Rep(Hook, 3)}

ScoreInputs == {MkWorkflow(nodes) : nodes \in NodeLists}

\* the documents the server may hold under /demo-workflows
Documents ==
    {MkWorkflow(<<Hook, Plain, ErrUpper>>),
     MkWorkflow(Scenario6),
     MkWorkflow(Scenario51),
     MkWorkflow(<<Hook, NoName>>)}

-----------------------------------------------------------------------------
(* The component *)

DemoTypes == {"email", "lead"}

\* generateAIResponse resolves with {text, model}; model may be empty (falsy)
Responses ==
    {[text |-> "- tips", model |-> "m"], [text |-> "- tips", model |-> ""]}

TypeOK ==
    /\ loading \in BOOLEAN
    /\ healthScore \in Int
    /\ served \in [DemoTypes -> Documents \cup ScoreInputs]
    /\ fetching \in [DemoTypes -> Nat]
    /\ IsABag(pending)

\* handleAnalyze up to the await (lines 48-64), from the Run Diagnostics
\* button, which is disabled while loading || !workflow (line 162)
HandleAnalyze ==
    /\ ~loading
    /\ workflow # NULL
    /\ BagCardinality(pending) < MaxCalls
    /\ loading' = TRUE
    /\ analysis' = NULL
    /\ analysisOf' = NULL
    /\ pending' = pending (+) SetToBag({workflow})
    /\ UNCHANGED <<workflow, healthScore, served, fetching, scoreOf>>

\* handleAnalyze after the await, the promise resolved with res (lines 66-99)
\* in the call whose closure captured workflow w
AIResolve(w, res) ==
    /\ BagIn(w, pending)
    /\ pending' = pending (-) SetToBag({w})
    /\ analysis' = [text |-> res.text,
                    model |-> IF res.model # "" THEN res.model ELSE "AI Model"]
    /\ analysisOf' = w
    /\ IF ScoreThrows(w.nodes)
       THEN UNCHANGED <<healthScore, scoreOf, loading>>
       ELSE /\ healthScore' = Score(w)
            /\ scoreOf' = w
            /\ loading' = FALSE
    /\ UNCHANGED <<workflow, served, fetching>>

\* what a handleAnalyze call hands back besides its two state updates: the
\* function returns no value and sets no state but analysis and healthScore,
\* so the findings of a call are none
ReturnedFindings(w) == {}

ScoreInit ==
    /\ workflow \in ScoreInputs
    /\ served = [t \in DemoTypes |-> workflow]
    /\ loading = FALSE
    /\ analysis = NULL
    /\ healthScore = 0
    /\ fetching = [t \in DemoTypes |-> 0]
    /\ pending = EmptyBag
    /\ analysisOf = NULL
    /\ scoreOf = NULL

ScoreNext ==
    \/ HandleAnalyze
    \/ \E w \in BagToSet(pending), res \in Responses : AIResolve(w, res)

SpecScore == ScoreInit /\ [][ScoreNext]_vars

InFlight == fetching["email"] + fetching["lead"]

\* the state after the first render and its effect (lines 35-46): the mount
\* effect has started the fetch of email-classifier.json
Init ==
    /\ workflow = NULL
    /\ served \in [DemoTypes -> Documents]
    /\ loading = FALSE
    /\ analysis = NULL
    /\ healthScore = 0
    /\ fetching = [t \in DemoTypes |-> IF t = "email" THEN 1 ELSE 0]
    /\ pending = EmptyBag
    /\ analysisOf = NULL
    /\ scoreOf = NULL

\* loadDemo (lines 102-109), up to the start of the fetch
LoadDemo(t) ==
    /\ InFlight < MaxFetches
    /\ loading' = FALSE
    /\ analysis' = NULL
    /\ healthScore' = 0
    /\ fetching' = [fetching EXCEPT ![t] = @ + 1]
    /\ analysisOf' = NULL
    /\ scoreOf' = NULL
    /\ UNCHANGED <<workflow, served, pending>>

\* a fetch completes and its last .then runs: setWorkflow(data) (lines 45, 108)
FetchResolve(t) ==
    /\ fetching[t] > 0
    /\ fetching' = [fetching EXCEPT ![t] = @ - 1]
    /\ workflow' = served[t]
    /\ UNCHANGED <<loading, analysis, healthScore, served, pending,
                   analysisOf, scoreOf>>

\* a fetch or its res.json() rejects: no handler is attached, no state is set
FetchReject(t) ==
    /\ fetching[t] > 0
    /\ fetching' = [fetching EXCEPT ![t] = @ - 1]
    /\ UNCHANGED <<workflow, loading, analysis, healthScore, served, pending,
                   analysisOf, scoreOf>>

\* the awaited generateAIResponse rejects (line 64): the call ends there
AIReject(w) ==
    /\ BagIn(w, pending)
    /\ pending' = pending (-) SetToBag({w})
    /\ UNCHANGED <<workflow, loading, analysis, healthScore, served, fetching,
                   analysisOf, scoreOf>>

Next ==
    \/ \E t \in DemoTypes : LoadDemo(t)
    \/ \E t \in DemoTypes : FetchResolve(t)
    \/ \E t \in DemoTypes : FetchReject(t)
    \/ HandleAnalyze
    \/ \E w \in BagToSet(pending), res \in Responses : AIResolve(w, res)
    \/ \E w \in BagToSet(pending) : AIReject(w)

Spec == Init /\ [][Next]_vars

-----------------------------------------------------------------------------
(* Claims *)

\* the score on display was written by the call that wrote the analysis on
\* display, and that call has finished
ScoredNow == scoreOf # NULL /\ scoreOf = analysisOf /\ ~loading

\* a handleAnalyze call got its AI response and threw before setHealthScore
Threw == analysisOf # NULL /\ scoreOf # analysisOf

\* s contains word, whatever the letter case of s (word is lower case)
ContainsAnyCase(s, word) == Includes(ToLowerCase(s), word)

\* C1: after any sequence of workflow loads and completed analyses the stored
\* health score is an integer in 0..100, and it is exactly 0 when it was
\* computed for a workflow whose deltas sum below -100 (more than 50
\* default-named nodes)
C1_ScoreInRange ==
    /\ healthScore \in 0..100
    /\ scoreOf # NULL =>
          /\ RawScore(scoreOf.nodes) - 100 < -100 => healthScore = 0
          /\ Cardinality({i \in 1..Len(scoreOf.nodes) :
                             MatchDefaultName(scoreOf.nodes[i].name)}) > 50
                => healthScore = 0

C1_Witness ==
    /\ scoreOf # NULL
    /\ analysis # NULL
    /\ Len(scoreOf.nodes) > 50
    /\ RawScore(scoreOf.nodes) < 0
    /\ healthScore = 0

\* the part of the local score every rule but rule r contributes, by rule
OtherThanError(nodes) ==
    100 + SizeDelta(nodes) + TriggerDelta(nodes) + HeavyDelta(nodes)
        + NamingDelta(nodes)
OtherThanNaming(nodes) ==
    100 + ErrorDelta(nodes) + SizeDelta(nodes) + TriggerDelta(nodes)
        + HeavyDelta(nodes)

\* the claim's error-handling type: "error" or "catch" in any letter case
AnyCaseErrorType(n) ==
    ContainsAnyCase(n.type, sError) \/ ContainsAnyCase(n.type, sCatch)

\* C2: the missing-error-handling penalty of 20 is applied exactly when the
\* workflow has more than 5 nodes and no node's type contains "error" or
\* "catch" in any letter case: the stored score is the score with the
\* penalty applied under exactly that condition
C2_ErrorPenaltyAnyCase ==
    ScoredNow =>
        LET nodes == scoreOf.nodes
            applies == /\ Len(nodes) > 5
                       /\ \A i \in 1..Len(nodes) : ~AnyCaseErrorType(nodes[i])
        IN  healthScore =
                Clamp(OtherThanError(nodes) + (IF applies THEN -20 ELSE 0))

\* probes: nodes with a default name, of every type of the model
DefaultNames == {nNode1, nNode12, nMyNode}
ProbeTypes ==
    {tSet, tWebhookTrigger, tTrigger, tErrorHandler, tERROR, tCatchUpper,
     sCatch, tCode, tCodeLower}
DefaultNamedProbes == {MkNode(nm, ty) : nm \in DefaultNames, ty \in ProbeTypes}

WithNode(w, n) == [w EXCEPT !.nodes = Append(@, n)]

\* C3 as stated: appending any default-named node never increases the score
C3_AnyDefaultNamedNode ==
    ScoredNow =>
        \A n \in DefaultNamedProbes : Score(WithNode(scoreOf, n)) <= healthScore

\* the type of n contains none of "error", "catch", "trigger", "webhook",
\* in any letter case
NeutralType(n) ==
    \A word \in {sError, sCatch, sTrigger, sWebhook} :
        ~ContainsAnyCase(n.type, word)

\* C3 (amended): appending a default-named node whose type contains none of
\* "error", "catch", "trigger", "webhook" never increases the score
C3_Monotone ==
    ScoredNow =>
        \A n \in DefaultNamedProbes :
            NeutralType(n) => Score(WithNode(scoreOf, n)) <= healthScore

C3_Witness ==
    /\ ScoredNow
    /\ Len(scoreOf.nodes) > 0
    /\ \E n \in DefaultNamedProbes :
          NeutralType(n) /\ Score(WithNode(scoreOf, n)) = healthScore - 2

\* a node with the empty string for each field the document omitted
FillNode(n) ==
    [name |-> IF HasName(n) THEN n.name ELSE <<>>,
     type |-> IF HasType(n) THEN n.type ELSE <<>>,
     position |-> n.position]
Filled(w) == [w EXCEPT !.nodes = [i \in 1..Len(@) |-> FillNode(@[i])]]

\* C4: a node lacking its name or type counts as having the empty string
\* there; once the AI response has arrived the analysis is complete, with
\* the score of the whole workflow stored
C4_MalformedNodeTolerated ==
    analysisOf # NULL =>
        /\ scoreOf = analysisOf
        /\ ~loading
        /\ healthScore = Score(Filled(analysisOf))

\* "Node" directly followed by one or more digits, somewhere in s
NodeThenDigits(s) ==
    \E i \in 1..(Len(s) - 4) :
        SubSeq(s, i, i + 3) = <<"N","o","d","e">> /\ s[i + 4] \in Digits

\* "Node", one space, and one or more digits, somewhere in s
NodeSpaceDigits(s) ==
    \E i \in 1..(Len(s) - 5) :
        SubSeq(s, i, i + 4) = <<"N","o","d","e"," ">> /\ s[i + 5] \in Digits

\* C5 as stated: the naming rule deducts 2 for each node whose name matches
\* "Node" followed by one or more digits, and nothing for the others
C5_NodeThenDigits ==
    ScoredNow =>
        healthScore =
            Clamp(OtherThanNaming(scoreOf.nodes)
                  - 2 * Cardinality({i \in 1..Len(scoreOf.nodes) :
                                        NodeThenDigits(scoreOf.nodes[i].name)}))

\* C5 (amended): the naming rule deducts 2 for each node whose name contains
\* "Node", a space, and one or more digits, per node and without a cap, and
\* nothing for the others
C5_NamingPenalty ==
    ScoredNow =>
        healthScore =
            Clamp(OtherThanNaming(scoreOf.nodes)
                  - 2 * Cardinality({i \in 1..Len(scoreOf.nodes) :
                                        NodeSpaceDigits(scoreOf.nodes[i].name)}))

C5_Witness ==
    /\ ScoredNow
    /\ Cardinality({i \in 1..Len(scoreOf.nodes) :
                       NodeSpaceDigits(scoreOf.nodes[i].name)}) = 2
    /\ \E i \in 1..Len(scoreOf.nodes) :
          ~NodeSpaceDigits(scoreOf.nodes[i].name)
    /\ healthScore = OtherThanNaming(scoreOf.nodes) - 4

RulePenalties(nodes) ==
    LET n == Len(nodes)
        idx == 1..n
        triggers == Cardinality({i \in idx : IsTrigger(nodes[i])})
        heavy == Cardinality({i \in idx : IsHeavy(nodes[i])})
        named == Cardinality({i \in idx : IsDefaultNamed(nodes[i])})
    IN  [missingErrorHandling |->
            IF n > 5 /\ \A i \in idx : ~IsErrorNode(nodes[i]) THEN 20 ELSE 0,
         moderateSize |-> IF n > 10 THEN 5 ELSE 0,
         largeSize |-> IF n > 20 THEN 10 ELSE 0,
         noTrigger |-> IF triggers = 0 THEN 10 ELSE 0,
         tooManyTriggers |-> IF triggers > 2 THEN 5 ELSE 0,
         excessCode |-> IF heavy > 3 THEN 5 ELSE 0,
         defaultNaming |-> 2 * named]

RECURSIVE SumOver(_, _)
SumOver(f, D) ==
    IF D = {} THEN 0
    ELSE LET d == CHOOSE x \in D : TRUE IN f[d] + SumOver(f, D \ {d})

TotalPenalty(nodes) ==
    LET p == RulePenalties(nodes) IN SumOver(p, DOMAIN p)

Swap(q, i, j) == [q EXCEPT ![i] = q[j], ![j] = q[i]]
Reverse(q) == [i \in 1..Len(q) |-> q[Len(q) + 1 - i]]

\* node lists with the same nodes in another order: the reversal, the
\* exchange of two of the first four nodes, and the exchange of one of the
\* first three nodes with the last
Reorderings(q) ==
    {q, Reverse(q)}
    \cup {Swap(q, i, j) : i, j \in 1..Min(4, Len(q))}
    \cup {Swap(q, i, Len(q)) : i \in 1..Min(3, Len(q))}

\* workflows with the same (name, type) pairs as w: the nodes reordered and
\* moved, under another name and with other connections, and w's nodes
\* alone, without name or connections
Variants(w) ==
    { [name |-> "other",
       nodes |-> [i \in 1..Len(q) |-> [q[i] EXCEPT !.position = <<7, 9>>]],
       connections |-> [Start |-> <<"End">>]] : q \in Reorderings(w.nodes) }
    \cup {[nodes |-> w.nodes]}

FiredFindings(nodes) ==
    LET p == RulePenalties(nodes)
    IN  {[rule |-> r, delta |-> -p[r]] : r \in {x \in DOMAIN p : p[x] > 0}}

RECURSIVE SumDeltas(_)
SumDeltas(F) ==
    IF F = {} THEN 0
    ELSE LET f == CHOOSE x \in F : TRUE IN f.delta + SumDeltas(F \ {f})

\* C9: every analysis returns the findings with the score: one finding for
\* each rule that fired and none for the others, and the score is 100 plus
\* the findings' deltas, clamped to 0..100
C9_FindingsExplainScore ==
    ScoredNow =>
        LET findings == ReturnedFindings(scoreOf)
        IN  /\ findings = FiredFindings(scoreOf.nodes)
            /\ healthScore = Clamp(100 + SumDeltas(findings))

\* C10: whenever the diagnostics panel shows an analysis and a score a call
\* computed, both were computed from the workflow now loaded: no result of
\* an earlier workflow is shown against a newer one
C10_NoStaleResult ==
    (analysis # NULL /\ scoreOf # NULL) =>
        /\ analysisOf = workflow
        /\ scoreOf = workflow

\* C11: at most one analysis is in flight at any time: no second
\* handleAnalyze call starts before the first one has finished, whatever
\* loadDemo calls happen in between
C11_OneAnalysisInFlight == BagCardinality(pending) <= 1

\* C12: every started analysis ends with loading set back to false, whether
\* the AI call returned or rejected: once no call is suspended at the await
\* any more (and none threw on a malformed node), loading is false, so that
\* Run Diagnostics is enabled without another loadDemo
C12_LoadingClearedAtEnd ==
    (pending = EmptyBag /\ ~Threw) => ~loading

====
